---- MODULE Spec2Model ----
(***************************************************************************)
(* Workflow orchestration engine of the Technical Documentation Suite.     *)
(*                                                                         *)
(* The model follows src/src/tech_doc_suite/main.py, the application       *)
(* run.py starts (background real pipeline, poll-time timeout,             *)
(* /stop-workflow): specifications Spec and FairSpec.                      *)
(* The repository also keeps src/main.py, the earlier single-file          *)
(* application (real pipeline run inside POST /generate, poll-driven demo  *)
(* auto-advance); its handlers are given at the end, specification         *)
(* SpecRoot, to state where the two differ.                                *)
(* One job (one workflow id) is followed from its creation on.  Handlers   *)
(* are atomic: the event loop switches tasks only where a coroutine really *)
(* suspends, and in these sources that is asyncio.sleep alone.             *)
(***************************************************************************)
EXTENDS Integers, Sequences, FiniteSets, TLC

\* ------------------------------------------------------------------ bounds
\* number of times the clock may be advanced by the environment
MaxTicks == 1

\* ------------------------------------------------------- program constants
TimeoutThreshold == 900
DwellTime == 3
HistoryCap == 20
HistoryWindow == 10

\* delays the environment may let pass between two events (seconds)
TickSteps == { DwellTime + 1, TimeoutThreshold, TimeoutThreshold + 1 }

\* Python None for a datetime field
NoTime == -1
\* Python None for current_agent / result
NoAgent == "none"
NoResult == "none"

agent_names ==
    << "code_analyzer", "doc_writer", "translation_agent", "diagram_generator",
       "quality_reviewer", "orchestrator", "feedback_collector" >>

AgentSet == { agent_names[i] : i \in 1..Len(agent_names) }

\* choices of DocumentationRequest.translation_languages (keys of the
\* translation agent's supported_languages)
LanguageChoices == { << >>, << "spanish", "french" >> }

Min(a, b) == IF a < b THEN a ELSE b
Max(a, b) == IF a > b THEN a ELSE b

VARIABLES
    now,            \* wall clock, datetime.now()
    ticks,          \* how often the environment advanced the clock
    wf,             \* workflows[workflow_id]: the WorkflowStatus record, or NoWorkflow
    queue,          \* agent_execution_queue[workflow_id]: [present, items]
    history,        \* agent_transition_history.get(workflow_id, [])
    pc,             \* position of run_ai_workflow_background: -1 no task, 0..19 next segment, 20 returned
    wake,           \* earliest time the sleeping background task resumes
    request,        \* the DocumentationRequest the job was created with
    translations,   \* the coroutine's local dict translations (stored in the result)
    checkout,       \* outcome of the creation request's git clone, NoCheckout if none was run
    stop_pc,        \* pc at which POST /stop-workflow answered success, or NoStop
    transitions,    \* every transition record written for the job, in append order
    repo_exists,    \* the checkout directory /tmp/repo_<workflow_id> is on disk
    \* --- one ContentOrchestratorAgent (a BaseAgent) and its start() loops
    is_running,     \* self.is_running
    state,          \* self.state
    message_queue,  \* self.message_queue, oldest message first
    processed_messages, \* self.processed_messages
    orchestrator_workflows, \* self.workflows of the ContentOrchestratorAgent
    loop,           \* per start() call: where the coroutine is
    received,       \* every message put into message_queue, in order
    handled,        \* every message passed to handle_message, in order
    \* --- the three stores of main.py, keyed by workflow id
    workflows,      \* workflows: id -> WorkflowStatus record, or NoWorkflow
    agent_execution_queue,      \* agent_execution_queue: id -> [present, items]
    agent_transition_history,   \* agent_transition_history: id -> list
    task_pc         \* per id: position of its run_ai_workflow_background

\* the variables of the agent and of the keyed stores
agent_vars == << is_running, state, message_queue, processed_messages,
                 orchestrator_workflows, loop, received, handled >>
store_vars == << workflows, agent_execution_queue, agent_transition_history, task_pc >>

vars == << now, ticks, wf, queue, history, pc, wake, request, translations, checkout, stop_pc, transitions, repo_exists, agent_vars, store_vars >>

NoWorkflow == [ status |-> "absent" ]
NoQueue == [ present |-> FALSE, items |-> << >> ]
NoRequest == [ translation_languages |-> << >> ]
NoTask == -1
NoCheckout == "none"
NoStop == -2
TaskReturned == 20

Exists == wf.status # "absent"

\* the workflow ids of the keyed stores (uuid4 values in the code)
WorkflowIds == { "id-1", "id-2" }

\* how many start() coroutines of the agent exist at most
MaxLoops == 2
Loops == 1..MaxLoops

\* a start() coroutine that was not called yet or has returned
NotStarted == [ at |-> "returned" ]

\* ------------------------------------------------------------ AgentStatus
IdleAgent ==
    [ status |-> "idle", progress |-> 0, current_task |-> "none",
      started_at |-> NoTime, completed_at |-> NoTime ]

\* initialize_workflow_agents: every registered agent idle, queue a copy of agent_names
InitialAgents == [ a \in AgentSet |-> IdleAgent ]

InitialQueue == [ present |-> TRUE, items |-> agent_names ]

\* WorkflowStatus(...) as POST /generate constructs it
NewWorkflow(t) ==
    [ status |-> "initiated", progress |-> 0,
      message |-> << "Initializing documentation generation workflow" >>,
      created_at |-> t, completed_at |-> NoTime, current_agent |-> NoAgent,
      agents |-> << >>, result |-> NoResult, ai_powered |-> FALSE ]

\* ------------------------------------------- update_agent_status_with_history
\* The list slice lst[-n:] of Python
LastN(s, n) == IF Len(s) > n THEN SubSeq(s, Len(s) - n + 1, Len(s)) ELSE s

\* (mutant) the cap keeps the first HistoryCap records and drops the newest
update_agent_status_keeps_oldest(w, h, agent_name, status, progress, current_task, t) ==
    LET agents1 ==
            IF agent_name \in DOMAIN w.agents
            THEN [ w.agents EXCEPT ![agent_name] =
                     [ @ EXCEPT !.status = status,
                                !.progress = progress,
                                !.current_task = IF current_task # "" THEN current_task ELSE @,
                                !.started_at = IF status = "active" THEN t ELSE @,
                                !.completed_at = IF status = "completed" THEN t ELSE @ ] ]
            ELSE w.agents
        transition ==
            [ timestamp |-> t, agent |-> agent_name, status |-> status,
              progress |-> progress, task |-> current_task,
              workflow_progress |-> w.progress ]
        appended == Append(h, transition)
    IN  [ wf |-> [ w EXCEPT !.agents = agents1 ],
          history |-> IF Len(appended) > HistoryCap
                      THEN SubSeq(appended, 1, HistoryCap) ELSE appended ]

\* (mutant) the status write is skipped unless the new status is "active"
update_agent_status_active_only(w, h, agent_name, status, progress, current_task, t) ==
    LET agents1 ==
            IF agent_name \in DOMAIN w.agents
            THEN [ w.agents EXCEPT ![agent_name] =
                     [ @ EXCEPT !.status = IF status = "active" THEN status ELSE @,
                                !.progress = progress,
                                !.current_task = IF current_task # "" THEN current_task ELSE @,
                                !.started_at = IF status = "active" THEN t ELSE @,
                                !.completed_at = IF status = "completed" THEN t ELSE @ ] ]
            ELSE w.agents
        transition ==
            [ timestamp |-> t, agent |-> agent_name, status |-> status,
              progress |-> progress, task |-> current_task,
              workflow_progress |-> w.progress ]
        appended == Append(h, transition)
    IN  [ wf |-> [ w EXCEPT !.agents = agents1 ],
          history |-> IF Len(appended) > HistoryCap
                      THEN LastN(appended, HistoryCap) ELSE appended ]

\* One call for the (existing) job: w is the WorkflowStatus, h its stored log.
\* Returns the new pair [wf, history].
update_agent_status_with_history(w, h, agent_name, status, progress, current_task, t) ==
    LET agents1 ==
            IF agent_name \in DOMAIN w.agents
            THEN [ w.agents EXCEPT ![agent_name] =
                     [ @ EXCEPT !.status = status,
                                !.progress = progress,
                                !.current_task = IF current_task # "" THEN current_task ELSE @,
                                !.started_at = IF status = "active" THEN t ELSE @,
                                !.completed_at = IF status = "completed" THEN t ELSE @ ] ]
            ELSE w.agents
        transition ==
            [ timestamp |-> t, agent |-> agent_name, status |-> status,
              progress |-> progress, task |-> current_task,
              workflow_progress |-> w.progress ]
        appended == Append(h, transition)
    IN  [ wf |-> [ w EXCEPT !.agents = agents1 ],
          history |-> IF Len(appended) > HistoryCap
                      THEN LastN(appended, HistoryCap) ELSE appended ]

\* the record one call appends: "transition = {...}"
TransitionRecord(u, workflow_progress, t) ==
    [ timestamp |-> t, agent |-> u.agent, status |-> u.status,
      progress |-> u.progress, task |-> u.task,
      workflow_progress |-> workflow_progress ]

\* the records a run of consecutive calls appends
Records(ups, workflow_progress, t) ==
    [ i \in 1..Len(ups) |-> TransitionRecord(ups[i], workflow_progress, t) ]

\* An update as the pipeline writes it: <<agent, status, progress, task>>
Upd(a, s, p, task) == [ agent |-> a, status |-> s, progress |-> p, task |-> task ]

RECURSIVE ApplyUpdates(_, _, _, _)
ApplyUpdates(w, h, ups, t) ==
    IF ups = << >> THEN [ wf |-> w, history |-> h ]
    ELSE LET u == Head(ups)
             r == update_agent_status_with_history(w, h, u.agent, u.status, u.progress, u.task, t)
         IN  ApplyUpdates(r.wf, r.history, Tail(ups), t)

\* ------------------------------------------------------- execute_next_agent
AgentTitle(a) ==
    CASE a = "code_analyzer" -> "Code Analyzer"
      [] a = "doc_writer" -> "Doc Writer"
      [] a = "translation_agent" -> "Translation Agent"
      [] a = "diagram_generator" -> "Diagram Generator"
      [] a = "quality_reviewer" -> "Quality Reviewer"
      [] a = "orchestrator" -> "Orchestrator"
      [] a = "feedback_collector" -> "Feedback Collector"

\* (mutant) the progress formula without its cap of 90
execute_next_agent_uncapped(w, q, t) ==
    IF ~q.present \/ q.items = << >>
    THEN [ wf |-> [ w EXCEPT !.status = "completed",
                             !.progress = 100,
                             !.message = << "Documentation generation completed successfully" >>,
                             !.completed_at = t,
                             !.current_agent = NoAgent,
                             !.result = "demo" ],
           queue |-> q ]
    ELSE LET next_agent == Head(q.items)
             rest == Tail(q.items)
             started == [ w.agents EXCEPT ![next_agent] =
                            [ @ EXCEPT !.status = "active",
                                       !.started_at = t,
                                       !.current_task = "Processing repository data",
                                       !.progress = 50 ] ]
             agents1 == [ a \in DOMAIN started |->
                            IF a # next_agent /\ started[a].status = "active"
                            THEN [ started[a] EXCEPT !.status = "completed",
                                                     !.progress = 100,
                                                     !.completed_at = t ]
                            ELSE started[a] ]
         IN  [ wf |-> [ w EXCEPT !.current_agent = next_agent,
                                 !.progress = 10 + ((7 - Len(rest)) * 12),
                                 !.message = << "Agent", AgentTitle(next_agent), "is processing" >>,
                                 !.agents = agents1 ],
               queue |-> [ present |-> TRUE, items |-> rest ] ]

\* (mutant) the emptiness test of the queue is inverted: a job with stages
\* still queued is finalized at once
execute_next_agent_inverted(w, q, t) ==
    IF q.present /\ q.items # << >>
    THEN [ wf |-> [ w EXCEPT !.status = "completed",
                             !.progress = 100,
                             !.message = << "Documentation generation completed successfully" >>,
                             !.completed_at = t,
                             !.current_agent = NoAgent,
                             !.result = "demo" ],
           queue |-> q ]
    ELSE [ wf |-> w, queue |-> q ]

\* Returns the new pair [wf, queue].
execute_next_agent(w, q, t) ==
    IF ~q.present \/ q.items = << >>
    THEN [ wf |-> [ w EXCEPT !.status = "completed",
                             !.progress = 100,
                             !.message = << "Documentation generation completed successfully" >>,
                             !.completed_at = t,
                             !.current_agent = NoAgent,
                             !.result = "demo" ],
           queue |-> q ]
    ELSE LET next_agent == Head(q.items)
             rest == Tail(q.items)
             started == [ w.agents EXCEPT ![next_agent] =
                            [ @ EXCEPT !.status = "active",
                                       !.started_at = t,
                                       !.current_task = "Processing repository data",
                                       !.progress = 50 ] ]
             agents1 == [ a \in DOMAIN started |->
                            IF a # next_agent /\ started[a].status = "active"
                            THEN [ started[a] EXCEPT !.status = "completed",
                                                     !.progress = 100,
                                                     !.completed_at = t ]
                            ELSE started[a] ]
         IN  [ wf |-> [ w EXCEPT !.current_agent = next_agent,
                                 !.progress = Min(10 + ((7 - Len(rest)) * 12), 90),
                                 !.message = << "Agent", AgentTitle(next_agent), "is processing" >>,
                                 !.agents = agents1 ],
               queue |-> [ present |-> TRUE, items |-> rest ] ]

\* ------------------------------------------------ run_ai_workflow_background
\* The coroutine is cut at its asyncio.sleep calls into segments 0..19; segment k
\* runs atomically when the task resumes at pc = k.  Keep == -1 marks "no
\* assignment to workflows[id].progress in this segment".
Keep == -1

Seg(p, m, ups, s, nxt) ==
    [ progress |-> p, message |-> m, updates |-> ups, sleep |-> s, next |-> nxt ]

Segment(k, langs) ==
    CASE k = 0 ->
           Seg(10, << "Content Orchestrator initializing workflow" >>,
               << Upd("orchestrator", "active", 10, "Initializing workflow coordination") >>,
               2, 1)
      [] k = 1 ->
           Seg(20, << "Orchestrator directing code analysis" >>,
               << Upd("orchestrator", "active", 20, "Coordinating code analysis phase"),
                  Upd("code_analyzer", "active", 25, "Analyzing repository structure") >>,
               3, 2)
      [] k = 2 ->
           Seg(Keep, << >>,
               << Upd("code_analyzer", "active", 75, "Extracting functions and classes"),
                  Upd("orchestrator", "active", 25, "Monitoring code analysis progress") >>,
               2, 3)
      [] k = 3 ->
           Seg(Keep, << >>,
               << Upd("code_analyzer", "completed", 100, "Analysis completed"),
                  Upd("orchestrator", "active", 30, "Code analysis completed, proceeding to documentation") >>,
               3, 4)
      [] k = 4 ->
           Seg(40, << "Orchestrator directing documentation generation" >>,
               << Upd("orchestrator", "active", 40, "Coordinating documentation generation"),
                  Upd("doc_writer", "active", 20, "Initializing AI documentation generation") >>,
               3, 5)
      [] k = 5 ->
           Seg(Keep, << >>,
               << Upd("doc_writer", "active", 60, "Generating documentation content"),
                  Upd("orchestrator", "active", 45, "Monitoring documentation generation") >>,
               2, 6)
      [] k = 6 ->
           Seg(Keep, << >>,
               << Upd("doc_writer", "completed", 100, "Documentation generation completed"),
                  Upd("orchestrator", "active", 50, "Documentation completed, proceeding to diagrams") >>,
               3, 7)
      [] k = 7 ->
           Seg(60, << "Orchestrator directing diagram creation" >>,
               << Upd("orchestrator", "active", 60, "Coordinating diagram generation"),
                  Upd("diagram_generator", "active", 30, "Analyzing project architecture") >>,
               3, 8)
      [] k = 8 ->
           Seg(Keep, << >>,
               << Upd("diagram_generator", "active", 70, "Creating Mermaid diagrams"),
                  Upd("orchestrator", "active", 65, "Monitoring diagram creation") >>,
               2, 9)
      [] k = 9 ->
           Seg(Keep, << >>,
               << Upd("diagram_generator", "completed", 100, "Diagrams created successfully"),
                  Upd("orchestrator", "active", 70, "Diagrams completed, proceeding to translation") >>,
               3, 10)
      [] k = 10 ->
           Seg(75, << "Orchestrator directing translation services" >>,
               << Upd("orchestrator", "active", 75, "Coordinating translation phase"),
                  Upd("translation_agent", "active", 25, "Preparing translation services") >>,
               3, 11)
      [] k = 11 ->
           IF langs # << >>
           THEN Seg(Keep, << >>,
                    << Upd("translation_agent", "active", 60, "Translating to n languages"),
                       Upd("orchestrator", "active", 78, "Monitoring translation progress") >>,
                    2, 12)
           ELSE Seg(Keep, << >>,
                    << Upd("translation_agent", "active", 80, "No translations requested"),
                       Upd("translation_agent", "completed", 100, "Translation completed"),
                       Upd("orchestrator", "active", 80, "Translation completed, proceeding to quality review") >>,
                    3, 13)
      [] k = 12 ->
           Seg(Keep, << >>,
               << Upd("translation_agent", "completed", 100, "Translation completed"),
                  Upd("orchestrator", "active", 80, "Translation completed, proceeding to quality review") >>,
               3, 13)
      [] k = 13 ->
           Seg(85, << "Orchestrator directing quality review" >>,
               << Upd("orchestrator", "active", 85, "Coordinating quality review"),
                  Upd("quality_reviewer", "active", 30, "Analyzing documentation quality") >>,
               3, 14)
      [] k = 14 ->
           Seg(Keep, << >>,
               << Upd("quality_reviewer", "active", 70, "Calculating quality metrics"),
                  Upd("orchestrator", "active", 88, "Monitoring quality review") >>,
               2, 15)
      [] k = 15 ->
           Seg(Keep, << >>,
               << Upd("quality_reviewer", "completed", 100, "Quality review completed"),
                  Upd("orchestrator", "active", 90, "Quality review completed, setting up feedback") >>,
               3, 16)
      [] k = 16 ->
           Seg(95, << "Orchestrator setting up feedback collection" >>,
               << Upd("orchestrator", "active", 95, "Coordinating feedback setup"),
                  Upd("feedback_collector", "active", 50, "Setting up feedback mechanisms") >>,
               3, 17)
      [] k = 17 ->
           Seg(Keep, << >>,
               << Upd("feedback_collector", "active", 90, "Finalizing feedback setup"),
                  Upd("orchestrator", "active", 98, "Finalizing workflow") >>,
               2, 18)
      [] k = 18 ->
           Seg(Keep, << >>,
               << Upd("feedback_collector", "completed", 100, "Feedback collection ready"),
                  Upd("orchestrator", "completed", 100, "Workflow orchestration completed successfully") >>,
               3, 19)

\* PHASE 4, the work itself: the segment that runs the per-language loop.
TranslationSegment == 12

Languages(langs) == { langs[i] : i \in 1..Len(langs) }

\* (mutant) the loop without its try/except: the first language that raises
\* ends the loop, and nothing is recorded for it or for the languages after it
TranslatedUntilFailure(langs, outcome) ==
    [ l \in { langs[i] : i \in { j \in 1..Len(langs) :
                                   \A k \in 1..j : outcome[langs[k]] = "ok" } } |->
        "translated" ]

\* The loop over selected_languages: a language whose _perform_translation
\* raised gets the "Translation to ... failed. Original content" entry, the
\* others the translated content; the loop goes on after a failure.
Translated(langs, outcome) ==
    [ l \in Languages(langs) |->
        IF outcome[l] = "ok" THEN "translated" ELSE "placeholder" ]

\* segments that start with a collaborator call which may raise:
\* analyze_repository (3), doc_writer_generate_async (6), _generate_architecture_diagram (9)
ThrowingSegments == {3, 6, 9}
FinalSegment == 19

\* (mutant) the completion block without its assignment of the result
FinalCompletionNoResult(w, t) ==
    [ w EXCEPT !.status = "completed",
               !.progress = 100,
               !.message = << "Documentation generation completed successfully" >>,
               !.completed_at = t,
               !.current_agent = NoAgent ]

\* FINAL COMPLETION block
FinalCompletion(w, t) ==
    [ w EXCEPT !.status = "completed",
               !.progress = 100,
               !.message = << "Documentation generation completed successfully" >>,
               !.completed_at = t,
               !.current_agent = NoAgent,
               !.result = "real" ]

\* (mutant) the except-handler without its loop over the agents
WorkflowFailedKeepsActive(w, t) ==
    [ w EXCEPT !.status = "failed",
               !.progress = 100,
               !.message = << "Workflow failed:", "collaborator error" >>,
               !.completed_at = t,
               !.current_agent = NoAgent ]

\* the except-handler of the coroutine
WorkflowFailed(w, t) ==
    [ w EXCEPT !.status = "failed",
               !.progress = 100,
               !.message = << "Workflow failed:", "collaborator error" >>,
               !.completed_at = t,
               !.current_agent = NoAgent,
               !.agents = [ a \in DOMAIN w.agents |->
                              IF w.agents[a].status = "active"
                              THEN [ w.agents[a] EXCEPT !.status = "idle", !.progress = 0 ]
                              ELSE w.agents[a] ] ]

\* ================================================================ actions
\* (src/src/tech_doc_suite/main.py)

Init ==
    /\ now = 0
    /\ ticks = 0
    /\ wf = NoWorkflow
    /\ queue = NoQueue
    /\ history = << >>
    /\ pc = NoTask
    /\ wake = 0
    /\ request = NoRequest
    /\ translations = << >>
    /\ checkout = NoCheckout
    /\ stop_pc = NoStop
    /\ transitions = << >>
    /\ repo_exists = FALSE
    /\ is_running = FALSE
    /\ state = "initialized"
    /\ message_queue = << >>
    /\ processed_messages = 0
    /\ orchestrator_workflows = << >>
    /\ loop = [ l \in Loops |-> NotStarted ]
    /\ received = << >>
    /\ handled = << >>
    /\ workflows = [ id \in WorkflowIds |-> NoWorkflow ]
    /\ agent_execution_queue = [ id \in WorkflowIds |-> NoQueue ]
    /\ agent_transition_history = [ id \in WorkflowIds |-> << >> ]
    /\ task_pc = [ id \in WorkflowIds |-> NoTask ]

\* Time passes between two events.  The clock is followed from the creation
\* request on.
Tick ==
    /\ Exists
    /\ ticks < MaxTicks
    /\ \E d \in TickSteps : now' = now + d
    /\ ticks' = ticks + 1
    /\ UNCHANGED << wf, queue, history, pc, wake, request, translations, checkout, stop_pc, transitions, repo_exists, agent_vars, store_vars >>

\* generate_documentation up to the point where the mode is known
Initialized(t, key) ==
    [ NewWorkflow(t) EXCEPT !.agents = InitialAgents,
                            !.status = "processing",
                            !.progress = 5,
                            !.message = << "Workflow initialized, starting documentation generation" >>,
                            !.ai_powered = key ]

\* POST /generate.  key: GEMINI_API_KEY is set; clone: outcome of git clone.
generate_documentation(key, clone, langs) ==
    /\ ~Exists
    /\ request' = [ translation_languages |-> langs ]
    /\ IF key /\ clone = "ok"
       THEN /\ wf' = Initialized(now, key)
            /\ queue' = InitialQueue
            /\ pc' = 0
            /\ wake' = now
       ELSE LET w1 == IF key
                      THEN [ Initialized(now, key) EXCEPT !.ai_powered = FALSE ]
                      ELSE [ Initialized(now, key) EXCEPT !.message =
                               << "Running in demo mode (set GEMINI_API_KEY for real AI generation)" >> ]
                r == execute_next_agent(w1, InitialQueue, now)
            IN  /\ wf' = r.wf
                /\ queue' = r.queue
                /\ UNCHANGED << pc, wake >>
    /\ checkout' = IF key THEN clone ELSE NoCheckout
    /\ repo_exists' = (key /\ clone = "ok")
    /\ UNCHANGED << now, ticks, history, translations, stop_pc, transitions, agent_vars, store_vars >>

CreateJob ==
    \E key \in BOOLEAN, clone \in {"ok", "failed", "timeout"}, langs \in LanguageChoices :
        generate_documentation(key, clone, langs)

\* The background task resumes and runs one segment up to its next sleep.
BackgroundStep ==
    /\ pc \in 0..(FinalSegment - 1)
    /\ LET t == Max(now, wake)
           seg == Segment(pc, request.translation_languages)
           w1 == IF seg.progress # Keep
                 THEN [ wf EXCEPT !.progress = seg.progress, !.message = seg.message ]
                 ELSE wf
           w2 == IF pc = 0 THEN [ w1 EXCEPT !.current_agent = "orchestrator" ] ELSE w1
           h1 == IF pc = 0 THEN << >> ELSE history
           r == ApplyUpdates(w2, h1, seg.updates, t)
       IN  /\ wf' = r.wf
           /\ history' = r.history
           /\ transitions' = transitions \o Records(seg.updates, w2.progress, t)
           /\ now' = t
           /\ wake' = t + seg.sleep
           /\ pc' = seg.next
    /\ IF pc = TranslationSegment - 1
       THEN translations' = << >>
       ELSE IF pc = TranslationSegment
            THEN \E outcome \in [ Languages(request.translation_languages) -> {"ok", "raised"} ] :
                     translations' = Translated(request.translation_languages, outcome)
            ELSE UNCHANGED translations
    /\ UNCHANGED << ticks, queue, request, checkout, stop_pc, repo_exists, agent_vars, store_vars >>

\* A collaborator raises at the start of a segment: the except-handler runs.
BackgroundThrow ==
    /\ pc \in ThrowingSegments
    /\ LET t == Max(now, wake)
       IN  /\ wf' = WorkflowFailed(wf, t)
           /\ now' = t
    /\ pc' = TaskReturned
    /\ UNCHANGED << ticks, queue, history, wake, request, translations, checkout, stop_pc, transitions, repo_exists, agent_vars, store_vars >>

\* The task resumes after its last sleep and runs the FINAL COMPLETION block.
BackgroundComplete ==
    /\ pc = FinalSegment
    /\ LET t == Max(now, wake)
       IN  /\ wf' = FinalCompletion(wf, t)
           /\ now' = t
    /\ pc' = TaskReturned
    /\ UNCHANGED << ticks, queue, history, wake, request, translations, checkout, stop_pc, transitions, repo_exists, agent_vars, store_vars >>

\* (mutant) the timeout branch forgets to clear current_agent
TimeoutCheckKeepsStage(w, t) ==
    IF w.status = "processing" /\ t - w.created_at > TimeoutThreshold
    THEN [ w EXCEPT !.status = "failed",
                    !.progress = 100,
                    !.message = << "Workflow timed out - please try again" >>,
                    !.completed_at = t ]
    ELSE w

\* (mutant) a poll never times a job out
TimeoutCheckNever(w, t) == w

\* (mutant) the age test is ">=" instead of ">"
TimeoutCheckAtThreshold(w, t) ==
    IF w.status = "processing" /\ t - w.created_at >= TimeoutThreshold
    THEN [ w EXCEPT !.status = "failed",
                    !.progress = 100,
                    !.message = << "Workflow timed out - please try again" >>,
                    !.completed_at = t,
                    !.current_agent = NoAgent ]
    ELSE w

\* the poll-time timeout check of get_workflow_status
TimeoutCheck(w, t) ==
    IF w.status = "processing" /\ t - w.created_at > TimeoutThreshold
    THEN [ w EXCEPT !.status = "failed",
                    !.progress = 100,
                    !.message = << "Workflow timed out - please try again" >>,
                    !.completed_at = t,
                    !.current_agent = NoAgent ]
    ELSE w

TimedOut(w, t) == w.status = "processing" /\ t - w.created_at > TimeoutThreshold

\* (mutant) the answer carries the first HistoryWindow records of the log
ProjectionOldestTen(w, h) ==
    [ status |-> w.status, progress |-> w.progress, message |-> w.message,
      current_agent |-> w.current_agent, created_at |-> w.created_at,
      completed_at |-> w.completed_at, agents |-> w.agents, result |-> w.result,
      ai_powered |-> w.ai_powered,
      transition_history |-> SubSeq(h, 1, Min(Len(h), HistoryWindow)) ]

\* the "data" object of the response
Projection(w, h) ==
    [ status |-> w.status, progress |-> w.progress, message |-> w.message,
      current_agent |-> w.current_agent, created_at |-> w.created_at,
      completed_at |-> w.completed_at, agents |-> w.agents, result |-> w.result,
      ai_powered |-> w.ai_powered,
      transition_history |-> LastN(h, HistoryWindow) ]

\* the body GET /status/{workflow_id} answers with when it is issued in this state
PollResult == Projection(TimeoutCheck(wf, now), history)

\* what the handler leaves in the store when it is issued in this state
PollEffect ==
    [ wf |-> TimeoutCheck(wf, now),
      queue |-> IF TimedOut(wf, now) THEN NoQueue ELSE queue,
      history |-> history ]

\* GET /status/{workflow_id} for the job
get_workflow_status ==
    /\ Exists
    /\ wf' = PollEffect.wf
    /\ queue' = PollEffect.queue
    /\ history' = PollEffect.history
    /\ UNCHANGED << now, ticks, pc, wake, request, translations, checkout, stop_pc, transitions, repo_exists, agent_vars, store_vars >>

\* what a successful POST /stop-workflow writes
Stopped(w, t) ==
    [ w EXCEPT !.status = "stopped",
               !.progress = 100,
               !.message = << "Workflow stopped by user" >>,
               !.completed_at = t,
               !.current_agent = NoAgent,
               !.agents = [ a \in DOMAIN w.agents |->
                              [ w.agents[a] EXCEPT !.status = "idle", !.progress = 0 ] ] ]

\* (mutant) the status test of stop_workflow is dropped
StopAllowedAnyStatus(w) == TRUE

\* stop_workflow goes on only for a job in progress
StopAllowed(w) == w.status = "processing"

\* HTTP status POST /stop-workflow answers with when it is issued in this state
StopResponse ==
    IF ~Exists THEN 404
    ELSE IF ~StopAllowed(wf) THEN 400
    ELSE 200

\* what the handler leaves in the store when it is issued in this state
StopEffect ==
    IF Exists /\ StopAllowed(wf)
    THEN [ wf |-> Stopped(wf, now), queue |-> NoQueue, history |-> history ]
    ELSE [ wf |-> wf, queue |-> queue, history |-> history ]

\* POST /stop-workflow for the job's id
stop_workflow ==
    /\ wf' = StopEffect.wf
    /\ queue' = StopEffect.queue
    /\ history' = StopEffect.history
    /\ stop_pc' = IF Exists /\ StopAllowed(wf) THEN pc ELSE stop_pc
    /\ UNCHANGED << now, ticks, pc, wake, request, translations, checkout, transitions, repo_exists, agent_vars, store_vars >>

Next ==
    \/ Tick
    \/ CreateJob
    \/ BackgroundStep
    \/ BackgroundThrow
    \/ BackgroundComplete
    \/ get_workflow_status
    \/ stop_workflow

Spec == Init /\ [][Next]_vars

\* ================================================================= claims
Terminal(w) == w.status \in {"completed", "failed", "stopped"}
RealPipeline == Exists /\ wf.ai_powered
DemoPipeline == Exists /\ ~wf.ai_powered
ActiveAgents(w) == { a \in DOMAIN w.agents : w.agents[a].status = "active" }
Age == now - wf.created_at
TimeoutMessage == << "Workflow timed out - please try again" >>

\* the segment in which the last stage of the pipeline (feedback_collector) is started
FinalStageSegment == 16

\* C1: if Stop succeeds on a Processing RealPipeline job while its background
\* task is in flight and before the final stage has started, the job's status
\* is Stopped in every later state (the task never sets it to Completed).
C1_StoppedStaysStopped ==
    (RealPipeline /\ stop_pc \in 0..FinalStageSegment) => wf.status = "stopped"

\* C2: after a successful Stop on a RealPipeline job no stage becomes Active
\* and no stage progress is written in any later step.
C2_NoStageAfterStop ==
    [][ (RealPipeline /\ stop_pc # NoStop) =>
          \A a \in DOMAIN wf.agents :
              /\ (wf'.agents[a].status = "active" => wf.agents[a].status = "active")
              /\ wf'.agents[a].progress = wf.agents[a].progress ]_vars

\* C3: whenever a job's status is Failed or Stopped, none of its stages is Active.
C3_NoActiveWhenFailedOrStopped ==
    (Exists /\ wf.status \in {"failed", "stopped"}) => ActiveAgents(wf) = {}

\* C4: whenever a job's status is Completed, its progress is 100, completedAt
\* is set and every registered stage is Completed.
C4_CompletedIsComplete ==
    (Exists /\ wf.status = "completed") =>
        /\ wf.progress = 100
        /\ wf.completed_at # NoTime
        /\ \A a \in DOMAIN wf.agents : wf.agents[a].status = "completed"

C6_TerminalSnapshotStable ==
    [][ (Exists /\ Terminal(wf)) => PollResult' = PollResult ]_vars

\* C7: for a DemoPipeline job in Processing, a poll made when the active stage
\* has been Active for more than the dwell time marks that stage Completed and
\* makes exactly the next queued stage Active; a poll within the dwell time
\* advances nothing.
DwellExceeded ==
    /\ wf.current_agent # NoAgent
    /\ wf.agents[wf.current_agent].started_at # NoTime
    /\ now - wf.agents[wf.current_agent].started_at > DwellTime

C7_DemoAutoAdvance ==
    (DemoPipeline /\ wf.status = "processing" /\ wf.current_agent # NoAgent) =>
        IF DwellExceeded
        THEN /\ PollEffect.wf.agents[wf.current_agent].status = "completed"
             /\ (queue.present /\ queue.items # << >>) =>
                   /\ PollEffect.wf.current_agent = Head(queue.items)
                   /\ ActiveAgents(PollEffect.wf) = { Head(queue.items) }
                   /\ PollEffect.queue.items = Tail(queue.items)
        ELSE PollEffect.wf = wf /\ PollEffect.queue = queue

\* C8: a DemoPipeline job that keeps being polled while time passes (and that
\* no client stops) eventually reaches Completed with the canned result.
C8_DemoEventuallyCompleted ==
    []((DemoPipeline /\ stop_pc = NoStop) =>
          <>((wf.status = "completed" /\ wf.result = "demo") \/ stop_pc # NoStop))

LateTick ==
    /\ Exists
    /\ ticks >= MaxTicks
    /\ now - wf.created_at <= TimeoutThreshold
    /\ now' = wf.created_at + TimeoutThreshold + 1
    /\ UNCHANGED << ticks, wf, queue, history, pc, wake, request, translations, checkout, stop_pc, transitions, repo_exists, agent_vars, store_vars >>

FairNext == Next \/ LateTick

\* The event loop resumes a sleeping task once its sleep is over; the client
\* of C8 keeps polling and time keeps passing.
FairSpec ==
    /\ Init /\ [][FairNext]_vars
    /\ WF_vars(Tick)
    /\ WF_vars(LateTick)
    /\ WF_vars(get_workflow_status)
    /\ WF_vars(BackgroundStep)
    /\ WF_vars(BackgroundComplete)

\* Supporting fact for C7 and C8: no step of this application completes a demo
\* job (execute_next_agent runs once, at creation, and nothing calls it again).
DemoNeverCompleted ==
    DemoPipeline => wf.status # "completed"

\* ==================================================== src/main.py (earlier)
\* The single-file application: POST /generate runs the whole real pipeline
\* before it answers, GET /status auto-advances demo jobs, and there is neither
\* a timeout check nor a stop endpoint.  The in-request pipeline is cut at its
\* collaborator calls into segments 0..5 (pc); no other handler runs while the
\* request is being served.

MaxTicksRoot == 8
TickStepsRoot == { DwellTime, DwellTime + 1 }

RootFinalSegment == 5
RootInFlight == pc \in 0..RootFinalSegment

RootTick ==
    /\ Exists
    /\ ~RootInFlight
    /\ ticks < MaxTicksRoot
    /\ \E d \in TickStepsRoot : now' = now + d
    /\ ticks' = ticks + 1
    /\ UNCHANGED << wf, queue, history, pc, wake, request, translations, checkout, stop_pc, transitions, repo_exists, agent_vars, store_vars >>

RootSeg(done, start, task, p, m) ==
    [ completes |-> done, starts |-> start, task |-> task, progress |-> p, message |-> m ]

\* the writes between two collaborator calls of the in-request pipeline
RootSegment(k) ==
    CASE k = 0 -> RootSeg(NoAgent, "code_analyzer", "Analyzing repository",
                          20, << "Analyzing repository structure" >>)
      [] k = 1 -> RootSeg("code_analyzer", "doc_writer", "Generating documentation",
                          60, << "Generating comprehensive documentation using AI" >>)
      [] k = 2 -> RootSeg("doc_writer", "diagram_generator", "Creating diagrams",
                          80, << "Creating architectural diagrams" >>)
      [] k = 3 -> RootSeg("diagram_generator", "translation_agent", "Generating translations",
                          85, << "Generating translations" >>)
      [] k = 4 -> RootSeg("translation_agent", "quality_reviewer", "Reviewing quality",
                          95, << "Reviewing documentation quality" >>)

\* segments entered after a collaborator call that may raise:
\* analyze_repository (1), doc_writer_generate_async (2), _generate_architecture_diagram (3)
RootThrowingSegments == {1, 2, 3}

RootAgentCompleted(w, a, t) ==
    IF a = NoAgent THEN w
    ELSE [ w EXCEPT !.agents[a] =
             [ @ EXCEPT !.status = "completed", !.progress = 100, !.completed_at = t ] ]

RootAgentStarted(w, a, task, t) ==
    [ w EXCEPT !.current_agent = a,
               !.agents[a] = [ @ EXCEPT !.status = "active",
                                        !.started_at = t,
                                        !.current_task = task ] ]

\* "Store real results"
RootCompleted(w, t) ==
    [ RootAgentCompleted(w, "quality_reviewer", t)
        EXCEPT !.status = "completed",
               !.progress = 100,
               !.message = << "AI-powered documentation generation completed successfully" >>,
               !.completed_at = t,
               !.current_agent = NoAgent,
               !.result = "real" ]

\* the outer except-handler of the endpoint (reached by a failed clone)
RootGenerationFailed(w) ==
    [ w EXCEPT !.status = "failed",
               !.message = << "Generation failed:", "Failed to clone repository" >> ]

\* the inner except-handler: the real analysis failed, switch to demo mode
RootFallback(w, t) ==
    execute_next_agent(
        [ w EXCEPT !.message = << "AI analysis failed", "switching to demo mode" >>,
                   !.progress = 15,
                   !.agents = InitialAgents ],
        InitialQueue, t)

\* POST /generate up to the start of the in-request pipeline
root_generate_documentation(key, clone) ==
    /\ ~Exists
    /\ LET w0 == Initialized(now, key)
       IN  CASE ~key ->
                  LET r == execute_next_agent(
                               [ w0 EXCEPT !.message =
                                   << "Running in demo mode (set GEMINI_API_KEY for real AI generation)" >> ],
                               InitialQueue, now)
                  IN  wf' = r.wf /\ queue' = r.queue /\ UNCHANGED pc
             [] key /\ clone # "ok" ->
                  wf' = RootGenerationFailed(w0) /\ queue' = InitialQueue /\ UNCHANGED pc
             [] key /\ clone = "ok" ->
                  wf' = w0 /\ queue' = InitialQueue /\ pc' = 0
    /\ checkout' = IF key THEN clone ELSE NoCheckout
    /\ repo_exists' = (key /\ clone = "ok")
    /\ UNCHANGED << now, ticks, history, wake, request, translations, stop_pc, transitions, agent_vars, store_vars >>

RootCreateJob ==
    \E key \in BOOLEAN, clone \in {"ok", "failed"} :
        root_generate_documentation(key, clone)

\* the request goes on to its next collaborator call
RootPipelineStep ==
    /\ pc \in 0..(RootFinalSegment - 1)
    /\ LET seg == RootSegment(pc)
           w1 == RootAgentStarted(RootAgentCompleted(wf, seg.completes, now),
                                  seg.starts, seg.task, now)
       IN  wf' = [ w1 EXCEPT !.progress = seg.progress, !.message = seg.message ]
    /\ pc' = pc + 1
    /\ UNCHANGED << now, ticks, queue, history, wake, request, translations, checkout, stop_pc, transitions, repo_exists, agent_vars, store_vars >>

\* the collaborator call raised: "switching to demo mode"
RootPipelineRaise ==
    /\ pc \in RootThrowingSegments
    /\ LET r == RootFallback(wf, now)
       IN  wf' = r.wf /\ queue' = r.queue
    /\ pc' = TaskReturned
    /\ UNCHANGED << now, ticks, history, wake, request, translations, checkout, stop_pc, transitions, repo_exists, agent_vars, store_vars >>

\* the last collaborator returned: the request stores the result and answers
RootPipelineComplete ==
    /\ pc = RootFinalSegment
    /\ wf' = RootCompleted(wf, now)
    /\ repo_exists' = FALSE
    /\ pc' = TaskReturned
    /\ UNCHANGED << now, ticks, queue, history, wake, request, translations, checkout, stop_pc, transitions, agent_vars, store_vars >>

\* what GET /status leaves in the store when it is issued in this state
RootPollEffect ==
    IF /\ wf.status = "processing"
       /\ queue.present
       /\ ~wf.ai_powered
       /\ wf.current_agent # NoAgent
       /\ wf.agents[wf.current_agent].started_at # NoTime
       /\ now - wf.agents[wf.current_agent].started_at > DwellTime
    THEN execute_next_agent(
             [ wf EXCEPT !.agents[wf.current_agent] =
                           [ @ EXCEPT !.status = "completed",
                                      !.progress = 100,
                                      !.completed_at = now ] ],
             queue, now)
    ELSE [ wf |-> wf, queue |-> queue ]

\* GET /status/{workflow_id} for the job
root_get_workflow_status ==
    /\ Exists
    /\ ~RootInFlight
    /\ wf' = RootPollEffect.wf
    /\ queue' = RootPollEffect.queue
    /\ UNCHANGED << now, ticks, history, pc, wake, request, translations, checkout, stop_pc, transitions, repo_exists, agent_vars, store_vars >>

NextRoot ==
    \/ RootTick
    \/ RootCreateJob
    \/ RootPipelineStep
    \/ RootPipelineRaise
    \/ RootPipelineComplete
    \/ root_get_workflow_status

SpecRoot == Init /\ [][NextRoot]_vars

\* In src/main.py the auto-advance that C7 describes is there: a poll of a
\* Processing demo job whose active stage is older than the dwell time completes
\* that stage and starts exactly the next queued one (or finalizes the job when
\* the queue is empty); a poll within the dwell time changes nothing.
RootDemoAutoAdvance ==
    (DemoPipeline /\ wf.status = "processing" /\ wf.current_agent # NoAgent) =>
        IF DwellExceeded
        THEN /\ RootPollEffect.wf.agents[wf.current_agent].status = "completed"
             /\ IF queue.items # << >>
                THEN /\ RootPollEffect.wf.current_agent = Head(queue.items)
                     /\ ActiveAgents(RootPollEffect.wf) = { Head(queue.items) }
                     /\ RootPollEffect.queue.items = Tail(queue.items)
                ELSE /\ RootPollEffect.wf.status = "completed"
                     /\ RootPollEffect.wf.result = "demo"
        ELSE RootPollEffect.wf = wf /\ RootPollEffect.queue = queue

\* In src/main.py a demo job can be polled through all seven stages to Completed.
RootDemoCompletedReached ==
    /\ DemoPipeline
    /\ wf.status = "completed"
    /\ \A a \in DOMAIN wf.agents : wf.agents[a].status = "completed"

\* ========================================================== claims C11..C20
\* position of a stage in the registry (agent_names)
Index(a) == CHOOSE i \in 1..Len(agent_names) : agent_names[i] = a

\* the stage goes to Active in this step
BecomesActive(a) ==
    wf.agents[a].status # "active" /\ wf'.agents[a].status = "active"

\* the stage has been Active at some time of this run (started_at is written
\* with every transition to Active and never cleared)
HasBeenActive(a) == wf.agents[a].started_at # NoTime

\* C11: within one run stages become Active in the order of the registry
\* (agent_names): when a stage becomes Active no stage registered after it has
\* been Active yet, and a stage that has left Active never becomes Active again.
C11_RegistryOrderNoRevisit ==
    [][ Exists =>
          \A a \in DOMAIN wf.agents :
              BecomesActive(a) =>
                  /\ ~HasBeenActive(a)
                  /\ \A b \in DOMAIN wf.agents : Index(b) > Index(a) => ~HasBeenActive(b) ]_vars

\* the stage goes from Idle to Active in this step
StartsFromIdle(a) ==
    wf.agents[a].status = "idle" /\ wf'.agents[a].status = "active"

C13_CompletedAtIffTerminal ==
    Exists => ((wf.completed_at # NoTime) <=> Terminal(wf))

\* C14: over every step taken while the job is Processing (before and after
\* the step) the job's progress does not decrease.
C14_ProgressMonotone ==
    [][ (Exists /\ wf.status = "processing" /\ wf'.status = "processing") =>
            wf'.progress >= wf.progress ]_vars

\* C15: whenever the job's status is terminal (Completed, Failed or Stopped)
\* its progress is 100 (in that state and in every later one).
C15_TerminalProgress100 ==
    (Exists /\ Terminal(wf)) => wf.progress = 100

FailureMessage == << "Workflow failed:", "collaborator error" >>

\* the step in which a collaborator of the real pipeline raises
StageThrows == pc \in ThrowingSegments /\ pc' = TaskReturned

SecondStageSegment == 6

\* C17: when the collaborator of the second stage (doc_writer) of a
\* RealPipeline job throws (and nothing stopped the job), the job ends Failed
\* with the first stage (code_analyzer) Completed, the failing stage in status
\* Error and every later stage Idle.
C17_FailingStageInError ==
    [][ (RealPipeline /\ stop_pc = NoStop /\ pc = SecondStageSegment /\ pc' = TaskReturned) =>
            /\ wf'.status = "failed"
            /\ wf'.agents["code_analyzer"].status = "completed"
            /\ wf'.agents["doc_writer"].status = "error"
            /\ \A a \in {"translation_agent", "diagram_generator",
                         "quality_reviewer", "feedback_collector"} :
                   wf'.agents[a].status = "idle" ]_vars

\* the git clone of a RealPipeline creation request failed or timed out
CheckoutFailed == Exists /\ checkout \in {"failed", "timeout"}

\* C18: when the repository checkout of a RealPipeline creation request fails
\* or times out, the job is aborted: its status is Failed with a message that
\* carries the cause, it does not go on in Processing and it never has a result.
C18_CheckoutFailureAborts ==
    (CheckoutFailed /\ stop_pc = NoStop) =>
        /\ wf.status = "failed"
        /\ wf.message # TimeoutMessage
        /\ wf.result = NoResult

\* the step in which the translation stage does its work (the per-language loop)
TranslationRuns == pc = TranslationSegment /\ pc' # pc

\* C19: whatever languages fail to translate, the translation stage ends
\* Completed, the result's translations hold an entry for every requested
\* language (the placeholder for a failed one, the languages after it still
\* processed), the job's status is not changed by the failure and the task goes
\* on to the quality review.
C19_TranslationDegrades ==
    [][ TranslationRuns =>
            /\ pc' = TranslationSegment + 1
            /\ DOMAIN translations' = Languages(request.translation_languages)
            /\ \A l \in DOMAIN translations' : translations'[l] \in {"translated", "placeholder"}
            /\ wf'.agents["translation_agent"].status = "completed"
            /\ wf'.agents["translation_agent"].progress = 100
            /\ wf'.status = wf.status ]_vars

\* the first requested language failed, the second was still translated, and
\* the job went on to Completed with both entries in its result
C19_Witness ==
    /\ RealPipeline
    /\ stop_pc = NoStop
    /\ wf.status = "completed"
    /\ wf.result = "real"
    /\ request.translation_languages = << "spanish", "french" >>
    /\ translations["spanish"] = "placeholder"
    /\ translations["french"] = "translated"
    /\ wf.agents["translation_agent"].status = "completed"

\* a Stop issued in this state changes nothing of the job
StopChangesNothing ==
    /\ StopEffect.wf = wf
    /\ StopEffect.queue = queue
    /\ StopEffect.history = history

\* C20: Stop is accepted only while the job is Processing: for an unknown id it
\* answers 404, for a job that is Initiated, Completed, Failed or Stopped 400,
\* and in both cases the job record, its queue and its transition history stay
\* as they are; so after one accepted Stop every further Stop is rejected.
C20_StopOnlyWhileProcessing ==
    /\ ~Exists => (StopResponse = 404 /\ StopChangesNothing)
    /\ (Exists /\ wf.status # "processing") => (StopResponse = 400 /\ StopChangesNothing)
    /\ (Exists /\ wf.status = "processing") => StopResponse = 200
    /\ stop_pc # NoStop => (StopResponse = 400 /\ StopChangesNothing)

\* a Stop has been accepted and the job is Stopped: the next Stop is answered
\* 400 and leaves the job as it is
C20_Witness ==
    /\ Exists
    /\ stop_pc # NoStop
    /\ wf.status = "stopped"
    /\ ~queue.present
    /\ StopResponse = 400
    /\ StopChangesNothing

\* ========================================================== claims C21..C30
\* C21: a successful Stop resets to Idle exactly the stages that were Active:
\* a stage that was Completed keeps status Completed and progress 100, and an
\* Idle stage is left as it was.
C21_StopFrame ==
    (Exists /\ wf.status = "processing") =>
        \A a \in DOMAIN wf.agents :
            /\ wf.agents[a].status = "active" => StopEffect.wf.agents[a].status = "idle"
            /\ wf.agents[a].status = "completed" =>
                   /\ StopEffect.wf.agents[a].status = "completed"
                   /\ StopEffect.wf.agents[a].progress = 100
            /\ wf.agents[a].status = "idle" => StopEffect.wf.agents[a] = wf.agents[a]

\* a poll has timed the job out and nothing has overwritten that yet
TimedOutByPoll == Exists /\ wf.status = "failed" /\ wf.message = TimeoutMessage

\* C22: once a poll has timed out a RealPipeline job to Failed, the job's
\* status, progress, message and completedAt are never changed again (the job
\* never becomes Completed later).
C22_TimeoutIsFinal ==
    [][ (RealPipeline /\ TimedOutByPoll) =>
            /\ wf'.status = wf.status
            /\ wf'.progress = wf.progress
            /\ wf'.message = wf.message
            /\ wf'.completed_at = wf.completed_at ]_vars

\* the most recent min(n, Len(s)) elements of s, in the order of s
Suffix(s, n) ==
    LET k == Min(n, Len(s))
    IN  [ i \in 1..k |-> s[Len(s) - k + i] ]

\* C23: after any number n of stage updates of the job, the stored log holds
\* exactly the most recent min(n, 20) records, unchanged and in append order.
C23_LogIsBoundedSuffix ==
    /\ Len(history) = Min(Len(transitions), HistoryCap)
    /\ history = Suffix(transitions, HistoryCap)

\* more than 20 updates have been written: the oldest records are gone, the log
\* starts at the 20th most recent one
C23_Witness ==
    /\ Len(transitions) > HistoryCap + 1
    /\ Len(history) = HistoryCap
    /\ history[1] = transitions[Len(transitions) - HistoryCap + 1]
    /\ history[1] # transitions[1]

\* C24: the history field of a Poll answer is the last min(10, k) records of the
\* k stored ones, in append order (empty for a job without a log), and the Poll
\* leaves the stored log as it was.
C24_PollHistoryWindow ==
    Exists =>
        LET k == Len(history)
            m == Min(HistoryWindow, k)
            answer == PollResult.transition_history
        IN  /\ Len(answer) = m
            /\ \A i \in 1..m : answer[i] = history[k - m + i]
            /\ PollEffect.history = history

\* a log longer than the window: the answer starts after the oldest stored record
C24_Witness ==
    /\ Exists
    /\ Len(history) > HistoryWindow
    /\ Len(PollResult.transition_history) = HistoryWindow
    /\ PollResult.transition_history[HistoryWindow] = history[Len(history)]
    /\ PollResult.transition_history[1] # history[1]

\* a stage id outside the registry of initialize_workflow_agents
UnregisteredAgent == "unregistered_agent"

\* One call of update_agent_status_with_history in this state, with its test of
\* the job id: known says whether workflow_id is in workflows.
MutateStage(known, agent_name, status, progress) ==
    IF ~known THEN [ wf |-> wf, history |-> history ]
    ELSE update_agent_status_with_history(wf, history, agent_name, status, progress,
                                          "task", now)

\* C25: a stage update for an unknown job id, or for a stage id that is not
\* registered for the job, changes no StageState and appends no record.
C25_UnknownIsNoOp ==
    \A known \in IF Exists THEN BOOLEAN ELSE { FALSE } :
        \A agent_name \in AgentSet \cup { UnregisteredAgent } :
            LET r == MutateStage(known, agent_name, "active", 50)
            IN  (~known \/ agent_name \notin DOMAIN wf.agents) =>
                    /\ r.wf = wf
                    /\ r.history = history

\* the step takes stage a into "active" or "completed" from another status
\* (a stage of a job that is being created starts "idle")
StageAdvances(a) ==
    /\ Exists'
    /\ wf'.agents[a].status \in { "active", "completed" }
    /\ wf'.agents[a].status # (IF Exists THEN wf.agents[a].status ELSE "idle")

\* the step appended to the log a record naming stage a and its new status
RecordAppended(a) ==
    LET n == Len(transitions') - Len(transitions)
    IN  \E i \in 1..Len(history') :
            /\ i > Len(history') - n
            /\ history'[i].agent = a
            /\ history'[i].status = wf'.agents[a].status

\* C26: every step of the pipeline that changes a stage's status (Idle to
\* Active, Active to Completed), for a RealPipeline and for a DemoPipeline job,
\* appends in the same step a record naming that stage and its new status.
C26_StatusChangeIsLogged ==
    [][ \A a \in AgentSet : StageAdvances(a) => RecordAppended(a) ]_vars

\* C27: in every state a Poll can observe, the answer carries a result if and
\* only if its status is Completed.
C27_ResultIffCompleted ==
    Exists => (PollResult.result # NoResult <=> PollResult.status = "completed")

\* a Poll after the background task has run its completion block
C27_Witness ==
    /\ Exists
    /\ pc = TaskReturned
    /\ PollResult.status = "completed"
    /\ PollResult.result # NoResult

\* C28: in every state a Poll can observe, current_agent is null or names a
\* stage of the job that is Active; it is null when no stage is Active and
\* when the job is terminal.
C28_CurrentAgentIsActive ==
    Exists =>
        LET r == PollResult
            anyActive == \E a \in DOMAIN r.agents : r.agents[a].status = "active"
        IN  /\ r.current_agent # NoAgent =>
                   /\ r.current_agent \in DOMAIN r.agents
                   /\ r.agents[r.current_agent].status = "active"
            /\ ~anyActive => r.current_agent = NoAgent
            /\ r.status \in { "completed", "failed", "stopped" } => r.current_agent = NoAgent

\* C29: for a RealPipeline job whose checkout directory was created, once the
\* background task has returned (completed, failed, or run on after a Stop or
\* a timeout) the directory no longer exists.
C29_CheckoutRemoved ==
    (RealPipeline /\ checkout = "ok" /\ pc = TaskReturned) => ~repo_exists

\* the job is in the state one demo-advance step leaves a fresh job in
OneDemoStepDone(w, q) ==
    /\ DOMAIN w.agents = AgentSet
    /\ w.agents[agent_names[1]].status = "active"
    /\ \A a \in AgentSet \ { agent_names[1] } : w.agents[a].status = "idle"
    /\ q.present
    /\ q.items = [ i \in 1..(Len(agent_names) - 1) |-> agent_names[i + 1] ]
    /\ w.progress > 0

\* C30: the creation of a DemoPipeline job performs exactly one demo-advance
\* step before it returns: all stages registered, the first stage of the
\* registry Active, the others Idle, the remaining stages queued in order, and
\* the job's progress above 0.
C30_CreateDemoAdvancesOnce ==
    [][ (~Exists /\ Exists' /\ ~wf'.ai_powered) => OneDemoStepDone(wf', queue') ]_vars

\* a DemoPipeline job as the creation left it, before any poll or stop
C30_Witness ==
    /\ DemoPipeline
    /\ wf.status = "processing"
    /\ now = wf.created_at
    /\ stop_pc = NoStop
    /\ OneDemoStepDone(wf, queue)
    /\ wf.current_agent = agent_names[1]
    /\ wf.agents[agent_names[1]].started_at = wf.created_at

\* ========================================================== further handlers
\* the values of the query parameter "format" that download_documentation knows
DownloadFormats == { "markdown", "html", "json" }

\* (mutant) the status test of download_documentation is dropped
DownloadAllowedAnyStatus(w) == TRUE

\* download_documentation goes on only for a completed job
DownloadAllowed(w) == w.status = "completed"

\* HTTP status GET /download/{workflow_id}?format=... answers with when it is
\* issued in this state
DownloadResponse(format) ==
    IF ~Exists THEN 404
    ELSE IF ~DownloadAllowed(wf) THEN 400
    ELSE IF wf.result = NoResult THEN 404
    ELSE IF format \in DownloadFormats THEN 200
    ELSE 400

\* what the handler leaves in the store: it only reads
DownloadEffect == [ wf |-> wf, queue |-> queue, history |-> history ]

\* the try block of submit_feedback: the exception it raises, if any, and the
\* answer it returns otherwise
FeedbackTry ==
    IF ~Exists THEN [ raised |-> TRUE, status_code |-> 404 ]
    ELSE [ raised |-> FALSE, status_code |-> 200 ]

\* HTTP status POST /feedback answers with: "except Exception" catches the
\* HTTPException of the try block too and raises a 500 in its place
FeedbackResponse ==
    IF FeedbackTry.raised THEN 500 ELSE FeedbackTry.status_code

\* ========================================================== claims C31..C39
\* C32: a download request for a known job that is not Completed is answered
\* 400, for an unknown job 404, and in no case modifies the job.
C32_DownloadOnlyCompleted ==
    \A format \in DownloadFormats \cup { "pdf" } :
        /\ ~Exists => DownloadResponse(format) = 404
        /\ (Exists /\ wf.status # "completed") => DownloadResponse(format) = 400
        /\ DownloadEffect = [ wf |-> wf, queue |-> queue, history |-> history ]

\* a stopped job whose background task is still running: the download is refused
C32_Witness ==
    /\ Exists
    /\ wf.status = "stopped"
    /\ pc \in 1..FinalSegment
    /\ DownloadResponse("markdown") = 400
    /\ DownloadResponse("json") = 400

\* C34: the timeout check of a poll changes a job only if it is Processing and
\* older than the threshold; at age <= 900 s a Processing job is left as it is,
\* and a Completed, Failed or Stopped job is never altered, however old.
C34_TimeoutOnlyWhenDue ==
    (Exists /\ ~(wf.status = "processing" /\ Age > TimeoutThreshold)) =>
        /\ PollEffect.wf = wf
        /\ PollEffect.queue = queue
        /\ PollResult.status = wf.status

\* a Processing job polled at the age of exactly 900 s
C34_Witness ==
    /\ Exists
    /\ wf.status = "processing"
    /\ Age = TimeoutThreshold
    /\ PollResult.status = "processing"

\* C36: POST /feedback for a workflow id that is not in the store is answered
\* 404, not a 5xx.
C36_FeedbackUnknownIs404 ==
    ~Exists => FeedbackResponse = 404

\* the values run_ai_workflow_background and POST /generate assign to progress
\* before the completion
RealPhaseValues == { 5, 10, 20, 40, 60, 75, 85, 95 }

\* the queue of a demo job in which k - 1 stages have been taken
QueueBefore(k) ==
    [ present |-> TRUE,
      items |-> [ i \in 1..(Len(agent_names) - k + 1) |-> agent_names[k - 1 + i] ] ]

\* progress of a Processing job: below 100; a phase value in real mode; in demo
\* mode min(10 + 12k, 90) when k stages have been made Active
ProgressInRange ==
    (Exists /\ wf.status = "processing") =>
        /\ wf.progress \in 0..99
        /\ wf.ai_powered => wf.progress \in RealPhaseValues
        /\ ~wf.ai_powered =>
               wf.progress = Min(10 + 12 * (Len(agent_names) - Len(queue.items)), 90)
        /\ \A k \in 1..Len(agent_names) :
               LET r == execute_next_agent(wf, QueueBefore(k), now)
               IN  /\ r.wf.progress = (IF 10 + 12 * k < 90 THEN 10 + 12 * k ELSE 90)
                   /\ r.wf.status = "processing"

\* C35: while a job is Processing its progress is an integer strictly below
\* 100; in demo mode it is min(10 + 12k, 90) after the k-th stage was made
\* Active (k = 1..7); in real mode it takes only the phase values 5, 10, 20,
\* 40, 60, 75, 85, 95, and never a smaller one after a larger one.
C35_ProgressWhileRunning ==
    /\ []ProgressInRange
    /\ [][ (RealPipeline /\ wf.status = "processing" /\ wf'.status = "processing") =>
               wf'.progress >= wf.progress ]_vars

\* a real run in its last phase, still Processing
C35_Witness ==
    /\ RealPipeline
    /\ wf.status = "processing"
    /\ wf.progress = 95
    /\ pc = FinalSegment

\* Time passes until the job is older than the timeout threshold.
TimePasses ==
    /\ Exists
    /\ now - wf.created_at <= TimeoutThreshold
    /\ now' = wf.created_at + TimeoutThreshold + 1
    /\ UNCHANGED << ticks, wf, queue, history, pc, wake, request, translations, checkout, stop_pc, transitions, repo_exists, agent_vars, store_vars >>

\* The job of C33: it is created, its background task runs, the client polls
\* and time passes.  POST /stop-workflow is left out: an accepted Stop sets a
\* terminal status in its own step, so a job that is never terminal has seen
\* none, and a refused Stop writes nothing.
PolledNext ==
    \/ TimePasses
    \/ CreateJob
    \/ BackgroundStep
    \/ BackgroundThrow
    \/ BackgroundComplete
    \/ get_workflow_status

\* The event loop resumes the sleeping task, the client keeps polling and time
\* keeps passing.
PolledSpec ==
    /\ Init /\ [][PolledNext]_vars
    /\ WF_vars(TimePasses)
    /\ WF_vars(get_workflow_status)
    /\ WF_vars(BackgroundStep \/ BackgroundComplete)

MaxMessages == 7

MessageTypes == { "start_workflow", "workflow_step_complete" }

\* self.workflow_steps
workflow_steps ==
    << "analyze_code", "generate_documentation", "create_diagrams",
       "review_quality", "finalize_content" >>

\* message.data["workflow_id"] of every message sent here
OrchestratedId == "test-workflow"

\* Message(type=..., data={"workflow_id": ..., "step_name": ...}); message_id
\* is unique per message
Message(type, message_id) ==
    [ type |-> type, message_id |-> message_id,
      workflow_id |-> OrchestratedId, step_name |-> "step" ]

\* ContentOrchestratorAgent._start_workflow: the new self.workflows and the reply
_start_workflow(ws, message) ==
    [ workflows |-> [ id \in DOMAIN ws \cup { message.workflow_id } |->
                        IF id = message.workflow_id
                        THEN [ status |-> "running", current_step |-> 0,
                               steps_completed |-> << >> ]
                        ELSE ws[id] ],
      raised |-> FALSE,
      reply |-> [ type |-> "workflow_started",
                  workflow_id |-> message.workflow_id,
                  total_steps |-> Len(workflow_steps),
                  current_step |-> workflow_steps[1] ] ]

\* (mutant) the completion test is ">" instead of ">="
_handle_step_complete_late(ws, message) ==
    IF message.workflow_id \in DOMAIN ws
    THEN LET workflow == ws[message.workflow_id]
             current_step == workflow.current_step + 1
             updated == [ workflow EXCEPT
                            !.steps_completed = Append(@, message.step_name),
                            !.current_step = current_step,
                            !.status = IF current_step > Len(workflow_steps)
                                       THEN "completed" ELSE @ ]
         IN  [ workflows |-> [ ws EXCEPT ![message.workflow_id] = updated ],
               raised |-> FALSE,
               reply |-> [ type |-> "workflow_updated",
                           workflow_id |-> message.workflow_id,
                           status |-> updated.status ] ]
    ELSE [ workflows |-> ws, raised |-> TRUE, reply |-> [ type |-> "KeyError" ] ]

\* ContentOrchestratorAgent._handle_step_complete; for an id that is not in
\* self.workflows the reply's self.workflows[workflow_id] raises KeyError
_handle_step_complete(ws, message) ==
    IF message.workflow_id \in DOMAIN ws
    THEN LET workflow == ws[message.workflow_id]
             current_step == workflow.current_step + 1
             updated == [ workflow EXCEPT
                            !.steps_completed = Append(@, message.step_name),
                            !.current_step = current_step,
                            !.status = IF current_step >= Len(workflow_steps)
                                       THEN "completed" ELSE @ ]
         IN  [ workflows |-> [ ws EXCEPT ![message.workflow_id] = updated ],
               raised |-> FALSE,
               reply |-> [ type |-> "workflow_updated",
                           workflow_id |-> message.workflow_id,
                           status |-> updated.status ] ]
    ELSE [ workflows |-> ws, raised |-> TRUE, reply |-> [ type |-> "KeyError" ] ]

\* ContentOrchestratorAgent.handle_message
handle_message(ws, message) ==
    IF message.type = "start_workflow" THEN _start_workflow(ws, message)
    ELSE IF message.type = "workflow_step_complete" THEN _handle_step_complete(ws, message)
    ELSE [ workflows |-> ws, raised |-> FALSE, reply |-> [ type |-> "None" ] ]

\* (mutant) stop() clears is_running only
stop_flag_only == [ is_running |-> FALSE, state |-> state ]

\* what BaseAgent.stop assigns
stop_assignments == [ is_running |-> FALSE, state |-> "stopped" ]

\* BaseAgent.health_check, called in this state
health_check == is_running /\ state = "running"

\* the "while self.is_running" test at the top of the loop of start()
LoopTop(running) == IF running THEN [ at |-> "waiting" ] ELSE NotStarted

\* BaseAgent.start is called: it sets the flags and suspends in wait_for
start(l) ==
    /\ loop[l] = NotStarted
    /\ is_running' = TRUE
    /\ state' = "running"
    /\ loop' = [ loop EXCEPT ![l] = LoopTop(TRUE) ]
    /\ UNCHANGED << message_queue, processed_messages, orchestrator_workflows,
                    received, handled >>

\* BaseAgent.stop is called
stop ==
    /\ is_running' = stop_assignments.is_running
    /\ state' = stop_assignments.state
    /\ UNCHANGED << message_queue, processed_messages, orchestrator_workflows,
                    loop, received, handled >>

\* (mutant) the new message is put in front of the waiting ones
put_first(q, message) == << message >> \o q

\* asyncio.Queue.put of receive_message
put(q, message) == Append(q, message)

\* BaseAgent.receive_message (also the target of another agent's send_message)
receive_message(type) ==
    /\ Len(received) < MaxMessages
    /\ LET message == Message(type, Len(received) + 1)
       IN  /\ message_queue' = put(message_queue, message)
           /\ received' = Append(received, message)
    /\ UNCHANGED << is_running, state, processed_messages, orchestrator_workflows,
                    loop, handled >>

\* a start() coroutine's wait_for(self.message_queue.get()) returns a message
\* and the coroutine passes it to handle_message
LoopGet(l) ==
    /\ loop[l].at = "waiting"
    /\ message_queue # << >>
    /\ LET message == Head(message_queue)
           r == handle_message(orchestrator_workflows, message)
       IN  /\ message_queue' = Tail(message_queue)
           /\ handled' = Append(handled, message)
           /\ orchestrator_workflows' = r.workflows
           /\ loop' = [ loop EXCEPT ![l] = [ at |-> "handling", raised |-> r.raised ] ]
    /\ UNCHANGED << is_running, state, processed_messages, received >>

\* handle_message returns (processed_messages += 1) or raises (logged), and the
\* coroutine is back at the top of its loop
LoopHandled(l) ==
    /\ loop[l].at = "handling"
    /\ processed_messages' = IF loop[l].raised THEN processed_messages
                             ELSE processed_messages + 1
    /\ loop' = [ loop EXCEPT ![l] = LoopTop(is_running) ]
    /\ UNCHANGED << is_running, state, message_queue, orchestrator_workflows,
                    received, handled >>

\* wait_for times out on the empty queue after stop(): the coroutine returns
LoopTimeout(l) ==
    /\ loop[l].at = "waiting"
    /\ message_queue = << >>
    /\ ~is_running
    /\ loop' = [ loop EXCEPT ![l] = LoopTop(is_running) ]
    /\ UNCHANGED << is_running, state, message_queue, processed_messages,
                    orchestrator_workflows, received, handled >>

job_vars == << now, ticks, wf, queue, history, pc, wake, request, translations,
               checkout, stop_pc, transitions, repo_exists >>

StartAgent == (\E l \in Loops : start(l)) /\ UNCHANGED << job_vars, store_vars >>
StopAgent == stop /\ UNCHANGED << job_vars, store_vars >>
SendMessage == (\E type \in MessageTypes : receive_message(type)) /\ UNCHANGED << job_vars, store_vars >>
LoopGets == (\E l \in Loops : LoopGet(l)) /\ UNCHANGED << job_vars, store_vars >>
LoopHandles == (\E l \in Loops : LoopHandled(l)) /\ UNCHANGED << job_vars, store_vars >>
LoopTimesOut == (\E l \in Loops : LoopTimeout(l)) /\ UNCHANGED << job_vars, store_vars >>

NextAgent ==
    \/ StartAgent
    \/ StopAgent
    \/ SendMessage
    \/ LoopGets
    \/ LoopHandles
    \/ LoopTimesOut

SpecAgent == Init /\ [][NextAgent]_vars

\* ------------------------------------------------------ claims C37..C39
\* position in handled of the last start_workflow message, 0 if there is none
LastStart ==
    LET starts == { i \in 1..Len(handled) : handled[i].type = "start_workflow" }
    IN  IF starts = {} THEN 0 ELSE CHOOSE i \in starts : \A j \in starts : j <= i

\* workflow_step_complete messages handled since the workflow's (last) start
StepsSinceStart ==
    Cardinality({ i \in (LastStart + 1)..Len(handled) :
                    handled[i].type = "workflow_step_complete" })

\* C37: start_workflow registers the workflow as running at step 0 and replies
\* workflow_started with total_steps 5 and the first step as current_step;
\* from then on the workflow is completed if and only if at least 5
\* workflow_step_complete messages were handled for it since its start, each of
\* which raised current_step by exactly 1.
C37_StepMachine ==
    /\ LET r == _start_workflow(orchestrator_workflows, Message("start_workflow", 0))
       IN  /\ r.workflows[OrchestratedId].status = "running"
           /\ r.workflows[OrchestratedId].current_step = 0
           /\ r.reply.type = "workflow_started"
           /\ r.reply.total_steps = 5
           /\ r.reply.current_step = "analyze_code"
    /\ (LastStart = 0) <=> (OrchestratedId \notin DOMAIN orchestrator_workflows)
    /\ OrchestratedId \in DOMAIN orchestrator_workflows =>
           LET workflow == orchestrator_workflows[OrchestratedId]
           IN  /\ workflow.current_step = StepsSinceStart
               /\ workflow.status = "completed" <=> StepsSinceStart >= 5
               /\ workflow.status \in { "running", "completed" }

\* a workflow that received a sixth step message after its completion
C37_Witness ==
    /\ OrchestratedId \in DOMAIN orchestrator_workflows
    /\ orchestrator_workflows[OrchestratedId].status = "completed"
    /\ orchestrator_workflows[OrchestratedId].current_step > 5
    /\ StepsSinceStart > 5

\* C38: the messages delivered through receive_message are passed to
\* handle_message in the order of their arrival, each at most once, and
\* processed_messages never exceeds the number of messages received.
C38_FifoAtMostOnce ==
    /\ Len(handled) <= Len(received)
    /\ \A i \in 1..Len(handled) : handled[i] = received[i]
    /\ \A i, j \in 1..Len(handled) :
           i # j => handled[i].message_id # handled[j].message_id
    /\ processed_messages <= Len(handled)
    /\ processed_messages <= Len(received)

\* two start() coroutines of the agent are handling a message each while
\* further messages wait
C38_Witness ==
    /\ \A l \in { 1, 2 } : loop[l].at = "handling"
    /\ Len(handled) >= 3
    /\ message_queue # << >>
    /\ processed_messages < Len(handled)

\* C39: is_running holds if and only if state is "running", at every point
\* where another coroutine can observe the agent: health_check is false for a
\* fresh agent, true from a start() on and false from a stop() on.
C39_RunningIffState ==
    /\ [](is_running <=> state = "running")
    /\ [](health_check <=> is_running)
    /\ [](state = "initialized" => ~health_check)
    /\ [][ /\ (\E l \in Loops : loop[l] = NotStarted /\ loop'[l] # NotStarted) => health_check'
           /\ (health_check /\ ~health_check') => state' = "stopped"
           /\ (~health_check /\ health_check') =>
                  \E l \in Loops : loop[l] = NotStarted /\ loop'[l] # NotStarted ]_vars

\* a stopped agent whose loop has not yet noticed the stop
C39_Witness ==
    /\ ~is_running
    /\ state = "stopped"
    /\ \E l \in Loops : loop[l].at = "handling"
    /\ ~health_check

\* ============================================ several jobs in the stores
\* The three dicts of main.py with two workflow ids.  Every handler and the
\* background task read and write them under their own workflow_id.

StoreExists(id) == workflows[id].status # "absent"

\* the records main.py keeps for one job
JobRecord(id) ==
    << workflows[id], agent_execution_queue[id], agent_transition_history[id] >>

\* (mutant) stop_workflow resets every job in progress
StoppedInAll(ws, id, t) ==
    [ k \in DOMAIN ws |-> IF ws[k].status = "processing" THEN Stopped(ws[k], t) ELSE ws[k] ]

\* stop_workflow: "workflow = workflows[request.workflow_id]" and its writes
StoppedIn(ws, id, t) == [ ws EXCEPT ![id] = Stopped(ws[id], t) ]

\* POST /generate, answered with the new workflow_id id
StoreCreate(id, key, clone) ==
    /\ ~StoreExists(id)
    /\ IF key /\ clone = "ok"
       THEN /\ workflows' = [ workflows EXCEPT ![id] = Initialized(now, key) ]
            /\ agent_execution_queue' = [ agent_execution_queue EXCEPT ![id] = InitialQueue ]
            /\ task_pc' = [ task_pc EXCEPT ![id] = 0 ]
       ELSE LET w1 == IF key
                      THEN [ Initialized(now, key) EXCEPT !.ai_powered = FALSE ]
                      ELSE [ Initialized(now, key) EXCEPT !.message =
                               << "Running in demo mode (set GEMINI_API_KEY for real AI generation)" >> ]
                r == execute_next_agent(w1, InitialQueue, now)
            IN  /\ workflows' = [ workflows EXCEPT ![id] = r.wf ]
                /\ agent_execution_queue' = [ agent_execution_queue EXCEPT ![id] = r.queue ]
                /\ UNCHANGED task_pc
    /\ UNCHANGED << agent_transition_history, now, ticks >>

\* GET /status/{id}
StorePoll(id) ==
    /\ StoreExists(id)
    /\ workflows' = [ workflows EXCEPT ![id] = TimeoutCheck(@, now) ]
    /\ agent_execution_queue' =
           IF TimedOut(workflows[id], now)
           THEN [ agent_execution_queue EXCEPT ![id] = NoQueue ]
           ELSE agent_execution_queue
    /\ UNCHANGED << agent_transition_history, task_pc, now, ticks >>

\* POST /stop-workflow with workflow_id = id.  The stop requests of this
\* model arrive before the clock jump of StoreTick.
StoreStop(id) ==
    /\ StoreExists(id)
    /\ StopAllowed(workflows[id])
    /\ ticks = 0
    /\ workflows' = StoppedIn(workflows, id, now)
    /\ agent_execution_queue' = [ agent_execution_queue EXCEPT ![id] = NoQueue ]
    /\ UNCHANGED << agent_transition_history, task_pc, now, ticks >>

\* run_ai_workflow_background(id, ...) resumes and runs one segment
StoreBackgroundStep(id) ==
    /\ task_pc[id] \in 0..(FinalSegment - 1)
    /\ LET seg == Segment(task_pc[id], << >>)
           w1 == IF seg.progress # Keep
                 THEN [ workflows[id] EXCEPT !.progress = seg.progress, !.message = seg.message ]
                 ELSE workflows[id]
           w2 == IF task_pc[id] = 0 THEN [ w1 EXCEPT !.current_agent = "orchestrator" ] ELSE w1
           h1 == IF task_pc[id] = 0 THEN << >> ELSE agent_transition_history[id]
           r == ApplyUpdates(w2, h1, seg.updates, now)
       IN  /\ workflows' = [ workflows EXCEPT ![id] = r.wf ]
           /\ agent_transition_history' = [ agent_transition_history EXCEPT ![id] = r.history ]
           /\ task_pc' = [ task_pc EXCEPT ![id] = seg.next ]
    /\ UNCHANGED << agent_execution_queue, now, ticks >>

\* a collaborator raises in the task of id: its except-handler runs
StoreBackgroundThrow(id) ==
    /\ task_pc[id] \in ThrowingSegments
    /\ workflows' = [ workflows EXCEPT ![id] = WorkflowFailed(@, now) ]
    /\ task_pc' = [ task_pc EXCEPT ![id] = TaskReturned ]
    /\ UNCHANGED << agent_execution_queue, agent_transition_history, now, ticks >>

\* the task of id runs its FINAL COMPLETION block
StoreBackgroundComplete(id) ==
    /\ task_pc[id] = FinalSegment
    /\ workflows' = [ workflows EXCEPT ![id] = FinalCompletion(@, now) ]
    /\ task_pc' = [ task_pc EXCEPT ![id] = TaskReturned ]
    /\ UNCHANGED << agent_execution_queue, agent_transition_history, now, ticks >>

\* Time passes beyond the timeout threshold of the jobs created so far.  The
\* jump is taken while no background task is between two of its sleeps.
StoreTick ==
    /\ \E id \in WorkflowIds : StoreExists(id)
    /\ \A id \in WorkflowIds : task_pc[id] \in { NoTask, 0, TaskReturned }
    /\ ticks < MaxTicks
    /\ now' = now + TimeoutThreshold + 1
    /\ ticks' = ticks + 1
    /\ UNCHANGED store_vars

\* the variables of the one-job model besides the clock
single_job_vars == << wf, queue, history, pc, wake, request, translations,
                      checkout, stop_pc, transitions, repo_exists >>

StoreCreateJob ==
    /\ \E id \in WorkflowIds, key \in BOOLEAN, clone \in {"ok", "failed"} :
           StoreCreate(id, key, clone)
    /\ UNCHANGED << single_job_vars, agent_vars >>
StorePolls == (\E id \in WorkflowIds : StorePoll(id)) /\ UNCHANGED << single_job_vars, agent_vars >>
StoreStops == (\E id \in WorkflowIds : StoreStop(id)) /\ UNCHANGED << single_job_vars, agent_vars >>
StoreBackgroundSteps ==
    (\E id \in WorkflowIds : StoreBackgroundStep(id)) /\ UNCHANGED << single_job_vars, agent_vars >>
StoreBackgroundThrows ==
    (\E id \in WorkflowIds : StoreBackgroundThrow(id)) /\ UNCHANGED << single_job_vars, agent_vars >>
StoreBackgroundCompletes ==
    (\E id \in WorkflowIds : StoreBackgroundComplete(id)) /\ UNCHANGED << single_job_vars, agent_vars >>
StoreTime == StoreTick /\ UNCHANGED << single_job_vars, agent_vars >>

NextStore ==
    \/ StoreCreateJob
    \/ StorePolls
    \/ StoreStops
    \/ StoreBackgroundSteps
    \/ StoreBackgroundThrows
    \/ StoreBackgroundCompletes
    \/ StoreTime

SpecStore == Init /\ [][NextStore]_vars

\* an operation addressed to job id takes this step
AddressedTo(id) ==
    \/ \E key \in BOOLEAN, clone \in {"ok", "failed"} : StoreCreate(id, key, clone)
    \/ StorePoll(id)
    \/ StoreStop(id)
    \/ StoreBackgroundStep(id)
    \/ StoreBackgroundThrow(id)
    \/ StoreBackgroundComplete(id)

\* C31: an operation addressed to one job (create, poll with its timeout, stop,
\* a step of its background task) leaves the Job record, the stage states, the
\* stage queue and the transition log of every other job unchanged.
C31_JobIsolation ==
    [][ \A id \in WorkflowIds :
            AddressedTo(id) =>
                \A other \in WorkflowIds \ { id } : JobRecord(other)' = JobRecord(other) ]_vars

\* one job was stopped while the other one's background task is in the middle
\* of its run with a log of its own
C31_Witness ==
    /\ workflows["id-1"].status = "stopped"
    /\ workflows["id-2"].status = "processing"
    /\ task_pc["id-2"] \in 6..FinalSegment
    /\ agent_transition_history["id-2"] # << >>
    /\ \E a \in AgentSet : workflows["id-2"].agents[a].status = "active"

====
